---- MODULE Spec2Model ----
(***************************************************************************)
(* Model of idaes/unit_models/distillation/tray.py (class TrayData).       *)
(*                                                                         *)
(* Two specifications share the variables:                                 *)
(*   Spec            build(): the inlet state blocks, the balances and the *)
(*                   port population (_add_ports / _make_phase_split);     *)
(*   SpecInitialize  initialize() called, possibly repeatedly, on a tray   *)
(*                   holding the components that initialize() reads.       *)
(***************************************************************************)
EXTENDS Integers, Sequences, FiniteSets, TLC

\* ---------------------------------------------------------------- bounds
NumTime == 2
NumComp == 2
SfDenom == 4
MaxFlow == 3
MaxMembers == 2
MaxCalls == 2
MaxTerm == 1
MaxValue == 2

\* flowsheet().config.time
TimeSet == 0 .. (NumTime - 1)

\* property_package.component_list
CompList == 1 .. NumComp

\* property_package.phase_list, with the phase tags _add_ports passes
PhaseList == {"Liq", "Vap"}

\* ------------------------------------------------------------ the state
VARIABLES
    cfg,          \* self.config: the five boolean flags
    pc,           \* position of the tray in build() / initialize()
    err,          \* the exception that ended the current call, or "none"
    blocks,       \* the state blocks set on the tray (properties_in_*, _out)
    tray_vars,    \* the Vars declared on the tray itself
    cons,         \* the body of each constraint family, once declared
    inlet_ports,  \* inlet port name -> the state block it passes through
    ports,        \* outgoing port name -> its entries, in order of addition
    exprs,        \* names given to add_component for synthesized Expressions
    member_list,  \* properties_out[0].define_port_members(), in dict order
    call_idx,     \* which _make_phase_split call of _add_ports is running
    mem_idx,      \* position of that call's loop in member_list
    local_name,   \* the local variable local_name of that call
    active,       \* activation flag of the three constraint families
    T_fixed,      \* properties_out[t].temperature.fixed, per time point
    P_fixed,      \* properties_out[t].pressure.fixed, per time point
    sf_fixed,     \* liq_side_sf.fixed / vap_side_sf.fixed
    solver,       \* the solver argument of the current initialize call
    outlvl,       \* the outlvl argument of the current initialize call
    tee,          \* the local variable tee of initialize
    props_init,   \* state blocks whose initialize() ran in the current call
    solves,       \* one snapshot per solver.solve() invocation of the call
    tcs,          \* termination conditions the solver returned in the call
    msgs,         \* messages given to _log.info during the call
    oplog,        \* the model-mutating statements executed by the call
    ncalls,       \* number of initialize calls made so far
    in_T,         \* properties_in_*[t].temperature.value, per inlet and t
    in_P,         \* properties_in_vap[t].pressure.value, per time point
    out_T2,       \* twice properties_out[t].temperature.value, and its origin
    out_P         \* properties_out[t].pressure.value, and its origin

vvars == <<in_T, in_P, out_T2, out_P>>

ivars == <<active, T_fixed, P_fixed, sf_fixed, solver, outlvl, tee,
           props_init, solves, tcs, msgs, oplog, ncalls, vvars>>

bvars == <<blocks, tray_vars, cons, inlet_ports, ports, exprs, member_list,
           call_idx, mem_idx, local_name>>

vars == <<cfg, pc, err, bvars, ivars>>

\* CONFIG.declare(...) of the five flags, each with domain In([True, False])
Flags == [is_feed_tray : BOOLEAN,
          has_liquid_side_draw : BOOLEAN,
          has_vapor_side_draw : BOOLEAN,
          has_heat_transfer : BOOLEAN,
          has_pressure_change : BOOLEAN]

\* TerminationCondition values a solve may return
TermConds == {"optimal", "infeasible"}

\* values of the solver argument: the default None, or a solver object
Solvers == {"None", "given"}

\* values of the outlvl argument on both sides of the test outlvl > 2
OutLevels == {0, 3}

AllT(b) == [t \in TimeSet |-> b]

\* the inlet state blocks of the tray
InletBlocks(c) ==
    IF c.is_feed_tray THEN {"feed", "liq", "vap"} ELSE {"liq", "vap"}

\* ----------------------------------------------------- build: balances

AllBlocks(c) == InletBlocks(c) \cup {"out"}

\* one signed term of a constraint body: quantity q of state block blk (or
\* of the tray itself) for phase p and component j, at the constraint's t
Term(sgn, b, quantity, p, j) ==
    [sign |-> sgn, blk |-> b, q |-> quantity, p |-> p, j |-> j]

\* for i in inlet_list: ... inlet_list[i] ...   i is an element of the list,
\* a str, and a list is indexed by integers only
ListItem(lst, i) ==
    IF i.type = "int" THEN lst[i.v] ELSE [type |-> "TypeError", v |-> 0]

InletList(c) ==
    IF c.is_feed_tray
    THEN <<[type |-> "str", v |-> "feed"], [type |-> "str", v |-> "liq"],
           [type |-> "str", v |-> "vap"]>>
    ELSE <<[type |-> "str", v |-> "liq"], [type |-> "str", v |-> "vap"]>>

\* the state blocks the inlet loop sets before an iteration raises
InletLoop(lst) ==
    LET firstBad ==
            IF \E n \in 1 .. Len(lst) : ListItem(lst, lst[n]).type = "TypeError"
            THEN CHOOSE n \in 1 .. Len(lst) :
                    /\ ListItem(lst, lst[n]).type = "TypeError"
                    /\ \A m \in 1 .. (n - 1) :
                          ListItem(lst, lst[m]).type # "TypeError"
            ELSE Len(lst) + 1
    IN  [made |-> {lst[n].v : n \in 1 .. (firstBad - 1)},
         error |-> IF firstBad <= Len(lst) THEN "TypeError" ELSE "none"]

\* material_mixing_equations[t, j]:  0 == sum over phases of
\*   (feed +) liq + vap inlet flow terms - outlet flow term
MaterialBalance_FeedLeftOut(c) ==
    [tj \in TimeSet \X CompList |->
        {Term(1, b, "material_flow", p, tj[2]) :
            b \in {"liq", "vap"}, p \in PhaseList}
        \cup {Term(-1, "out", "material_flow", p, tj[2]) : p \in PhaseList}]

MaterialBalance(c) ==
    [tj \in TimeSet \X CompList |->
        {Term(1, b, "material_flow", p, tj[2]) :
            b \in InletBlocks(c), p \in PhaseList}
        \cup {Term(-1, "out", "material_flow", p, tj[2]) : p \in PhaseList}]

\* the Var _add_energy_balance declares
EnergyVars_Always(c) == {"heat_duty"}

EnergyVars(c) == IF c.has_heat_transfer THEN {"heat_duty"} ELSE {}

HeatDutyTerm == Term(1, "tray", "heat_duty", "none", 0)

\* enthalpy_mixing_equations[t]:  0 == (sum of inlet enthalpy flow terms
\*   - sum of outlet enthalpy flow terms) [+ heat_duty]
EnergyBalance(c) ==
    [t \in TimeSet |->
        {Term(1, b, "enthalpy_flow", p, 0) :
            b \in InletBlocks(c), p \in PhaseList}
        \cup {Term(-1, "out", "enthalpy_flow", p, 0) : p \in PhaseList}
        \cup (IF c.has_heat_transfer THEN {HeatDutyTerm} ELSE {})]

\* the Var _add_pressure_balance declares
PressureVars(c) == IF c.has_pressure_change THEN {"deltaP"} ELSE {}

DeltaPTerm == Term(-1, "tray", "deltaP", "none", 0)

\* pressure_drop_equation[t]:
\*   properties_out[t].pressure == properties_in_vap[t].pressure [- deltaP]
PressureBalance(c) ==
    [t \in TimeSet |->
        [lhs |-> {Term(1, "out", "pressure", "none", 0)},
         rhs |-> {Term(1, "vap", "pressure", "none", 0)}
                 \cup (IF c.has_pressure_change THEN {DeltaPTerm} ELSE {})]]

NoCons == [material |-> <<>>, enthalpy |-> <<>>, pressure |-> <<>>]

\* build(), from its call up to the loop that creates the inlet state blocks
Build ==
    /\ pc = "build"
    /\ LET r == InletLoop(InletList(cfg)) IN
       /\ blocks' = IF r.error = "none" THEN r.made \cup {"out"} ELSE r.made
       /\ pc' = IF r.error = "none" THEN "material" ELSE "build_error"
       /\ err' = r.error
    /\ UNCHANGED <<cfg, tray_vars, cons, inlet_ports, ports, exprs,
                   member_list, call_idx, mem_idx, local_name, ivars>>

\* _add_material_balance
AddMaterialBalance ==
    /\ pc = "material"
    /\ cons' = [cons EXCEPT !.material = MaterialBalance(cfg)]
    /\ pc' = "energy"
    /\ UNCHANGED <<cfg, err, blocks, tray_vars, inlet_ports, ports, exprs,
                   member_list, call_idx, mem_idx, local_name, ivars>>

\* _add_energy_balance
AddEnergyBalance ==
    /\ pc = "energy"
    /\ tray_vars' = tray_vars \cup EnergyVars(cfg)
    /\ cons' = [cons EXCEPT !.enthalpy = EnergyBalance(cfg)]
    /\ pc' = "pressure"
    /\ UNCHANGED <<cfg, err, blocks, inlet_ports, ports, exprs,
                   member_list, call_idx, mem_idx, local_name, ivars>>

\* _add_pressure_balance
AddPressureBalance ==
    /\ pc = "pressure"
    /\ tray_vars' = tray_vars \cup PressureVars(cfg)
    /\ cons' = [cons EXCEPT !.pressure = PressureBalance(cfg)]
    /\ pc' = "ports"
    /\ UNCHANGED <<cfg, err, blocks, inlet_ports, ports, exprs,
                   member_list, call_idx, mem_idx, local_name, ivars>>

\* ------------------------------------------------ build: outgoing ports

\* A member name is the sequence of its '_'-separated words, so that
\* k.split('_') is the name itself and '_'.join is concatenation.  No word
\* used below holds one of the tested substrings inside a longer word, so
\* "w in k" is: some word of k is w.
Has(k, w) == \E n \in 1 .. Len(k) : k[n] = w

\* the members a property package may declare in define_port_members():
\* name k, and whether the Var is indexed
MemberUniverse ==
    { [k |-> <<"temperature">>, indexed |-> FALSE],
      [k |-> <<"flow", "mol">>, indexed |-> FALSE],
      [k |-> <<"flow", "mol", "comp">>, indexed |-> TRUE],
      [k |-> <<"flow", "comp">>, indexed |-> TRUE],
      [k |-> <<"flow", "mol", "phase">>, indexed |-> TRUE],
      [k |-> <<"mole", "frac", "comp">>, indexed |-> TRUE],
      [k |-> <<"mass", "frac", "comp">>, indexed |-> TRUE],
      [k |-> <<"mole", "frac", "phase", "comp">>, indexed |-> TRUE],
      [k |-> <<"mole", "frac">>, indexed |-> TRUE],
      [k |-> <<"vap", "frac">>, indexed |-> FALSE],
      [k |-> <<"enth", "mol">>, indexed |-> FALSE],
      [k |-> <<"enth", "mol">>, indexed |-> TRUE],
      [k |-> <<"enth", "mol", "phase">>, indexed |-> TRUE] }

\* dicts of at most MaxMembers members: the names are distinct
MemberLists ==
    { ml \in UNION { [1 .. n -> MemberUniverse] : n \in 0 .. MaxMembers } :
        \A a, b \in 1 .. Len(ml) : a # b => ml[a].k # ml[b].k }

\* member_list[k].local_name: the Var carries the name it is declared under
LocalName(m) == m.k

\* the multiplier side_sf handed to _make_phase_split:  c + v * <sf>
SideMult(sfvar) == [c |-> 0, v |-> 1, sf |-> sfvar]

RestMult_NotComplemented(sfvar) == [c |-> 0, v |-> 1, sf |-> sfvar]

RestMult(sfvar) == [c |-> 1, v |-> -1, sf |-> sfvar]

OneMult == [c |-> 1, v |-> 0, sf |-> "none"]

\* the _make_phase_split calls of _add_ports, in order; newports and newvars
\* are the Ports and the Var created since the call before
PortCalls(c) ==
    (IF c.has_liquid_side_draw
     THEN <<[port |-> "liq_side_draw", phase |-> "Liq",
             mult |-> SideMult("liq_side_sf"),
             newports |-> {"liq_out", "liq_side_draw"},
             newvars |-> {"liq_side_sf"}],
            [port |-> "liq_out", phase |-> "Liq",
             mult |-> RestMult("liq_side_sf"),
             newports |-> {}, newvars |-> {}]>>
     ELSE <<[port |-> "liq_out", phase |-> "Liq", mult |-> OneMult,
             newports |-> {"liq_out"}, newvars |-> {}]>>)
    \o
    (IF c.has_vapor_side_draw
     THEN <<[port |-> "vap_side_draw", phase |-> "Vap",
             mult |-> SideMult("vap_side_sf"),
             newports |-> {"vap_out", "vap_side_draw"},
             newvars |-> {"vap_side_sf"}],
            [port |-> "vap_out", phase |-> "Vap",
             mult |-> RestMult("vap_side_sf"),
             newports |-> {}, newvars |-> {}]>>
     ELSE <<[port |-> "vap_out", phase |-> "Vap", mult |-> OneMult,
             newports |-> {"vap_out"}, newvars |-> {}]>>)

\* local_name before its first assignment in a call
Unbound == <<>>

NoEntry ==
    [k |-> <<>>, type |-> "none", var |-> <<>>, phase |-> "none",
     mult |-> OneMult, scaled |-> FALSE, ename |-> <<>>]

\* port.add(Reference(properties_out[:].component(local_name)[...]), k)
RefEntry(m) ==
    [k |-> m.k, type |-> "ref", var |-> LocalName(m), phase |-> "all",
     mult |-> OneMult, scaled |-> FALSE, ename |-> <<>>]

\* port.add(expr, k) with expr = component(var)[phase(, i)] (* side_sf)
ExprEntry(m, var, phase, mult, scaled, ename) ==
    [k |-> m.k, type |-> "expr", var |-> var, phase |-> phase,
     mult |-> mult, scaled |-> scaled, ename |-> ename]

Result(status, entry, ln) == [status |-> status, entry |-> entry, ln |-> ln]

\* evaluating a rule: properties_out[t].component(ln)[idx].  The state block
\* holds "X_phase" indexed by phase and "X_phase_comp" indexed by (phase,
\* comp) for the names the convention derives.
LookupError(ln, shape) ==
    IF ln = Unbound THEN "NameError"
    ELSE IF shape = "phase" /\ ln[Len(ln)] = "phase" THEN "none"
    ELSE IF /\ shape = "phase,comp"
            /\ Len(ln) >= 2
            /\ ln[Len(ln) - 1] = "phase"
            /\ ln[Len(ln)] = "comp" THEN "none"
    ELSE "KeyError"

\* Expression(...); self.add_component(ename, expr); port.add(expr, k):
\* add_component refuses a name the block already holds, then constructs
\* the Expression, which evaluates its rule
AddExpression(m, var, shape, phase, mult, scaled, ename, names) ==
    IF ename \in names
    THEN Result("RuntimeError", NoEntry, var)
    ELSE IF LookupError(var, shape) # "none"
         THEN Result(LookupError(var, shape), NoEntry, var)
         ELSE Result("expr", ExprEntry(m, var, phase, mult, scaled, ename),
                     var)

\* first branch: neither "flow" nor "frac" nor "enth" in k
ResolveIntensive_Dropped(m, ln) == Result("skip", NoEntry, ln)

ResolveIntensive(m, ln) == Result("ref", RefEntry(m), ln)

\* second branch: "frac" in k and ("mole" in k or "mass" in k)
ResolveFraction(m, port, phase, ln, names) ==
    IF ~Has(m.k, "phase")
    THEN IF Len(m.k) < 3
         THEN Result("IndexError", NoEntry, ln)
         ELSE AddExpression(m, <<m.k[1], m.k[2], "phase", m.k[3]>>,
                            "phase,comp", phase, OneMult, FALSE,
                            <<"e_mole_frac", port>>, names)
    ELSE Result("ref", RefEntry(m), ln)

\* third branch: "flow" in k
ResolveFlow(m, port, phase, mult, ln, names) ==
    IF ~Has(m.k, "phase")
    THEN IF ~m.indexed
         THEN AddExpression(m, LocalName(m) \o <<"phase">>, "phase", phase,
                            mult, TRUE, <<"e_flow", port>>, names)
         ELSE LET nm == LocalName(m)
                  new == IF Len(nm) = 3 /\ nm[3] = "comp"
                         THEN <<nm[1], nm[2], "phase", "comp">>
                         ELSE ln
              IN  AddExpression(m, new, "phase,comp", phase, mult, TRUE,
                                <<"e_flow", port>>, names)
    ELSE Result("skip", NoEntry, ln)

\* fourth branch: "enth" in k
ResolveEnthalpy_NoIndexCheck(m, port, phase, ln, names) ==
    IF ~Has(m.k, "phase")
    THEN AddExpression(m, LocalName(m) \o <<"phase">>, "phase", phase,
                       OneMult, FALSE, <<"e_enth", port>>, names)
    ELSE Result("ref", RefEntry(m), ln)

ResolveEnthalpy(m, port, phase, ln, names) ==
    IF ~Has(m.k, "phase")
    THEN IF ~m.indexed
         THEN AddExpression(m, LocalName(m) \o <<"phase">>, "phase", phase,
                            OneMult, FALSE, <<"e_enth", port>>, names)
         ELSE Result("PropertyPackageError", NoEntry, ln)
    ELSE IF Has(m.k, "phase")
         THEN Result("ref", RefEntry(m), ln)
         ELSE Result("Exception", NoEntry, ln)

\* which branch of the if/elif chain of the loop body takes the member
Branch(k) ==
    IF ~Has(k, "flow") /\ ~Has(k, "frac") /\ ~Has(k, "enth") THEN "intensive"
    ELSE IF Has(k, "frac") /\ (Has(k, "mole") \/ Has(k, "mass"))
         THEN "fraction"
    ELSE IF Has(k, "flow") THEN "flow"
    ELSE IF Has(k, "enth") THEN "enthalpy"
    ELSE "none"

\* one pass of the loop body "for k in member_list" of _make_phase_split
Resolve(m, port, phase, mult, ln, names) ==
    CASE Branch(m.k) = "intensive" -> ResolveIntensive(m, ln)
      [] Branch(m.k) = "fraction" -> ResolveFraction(m, port, phase, ln, names)
      [] Branch(m.k) = "flow" -> ResolveFlow(m, port, phase, mult, ln, names)
      [] Branch(m.k) = "enthalpy" -> ResolveEnthalpy(m, port, phase, ln, names)
      [] OTHER -> Result("skip", NoEntry, ln)

\* the inlet ports _add_ports adds, each passing its state block through
InletPorts(c) ==
    [n \in (IF c.is_feed_tray THEN {"feed"} ELSE {}) \cup {"liq_in", "vap_in"}
        |-> IF n = "feed" THEN "feed" ELSE IF n = "liq_in" THEN "liq" ELSE "vap"]

\* _add_ports up to its first _make_phase_split call
AddPorts(ml) ==
    /\ pc = "ports"
    /\ inlet_ports' = InletPorts(cfg)
    /\ member_list' = ml
    /\ call_idx' = 1
    /\ pc' = "ports_call"
    /\ UNCHANGED <<cfg, err, blocks, tray_vars, cons, ports, exprs, mem_idx,
                   local_name, ivars>>

\* the Port and Var declarations before a call, and the call's entry
EnterPhaseSplit ==
    /\ pc = "ports_call"
    /\ call_idx <= Len(PortCalls(cfg))
    /\ LET call == PortCalls(cfg)[call_idx] IN
       /\ ports' = [n \in DOMAIN ports \cup call.newports |->
                       IF n \in DOMAIN ports THEN ports[n] ELSE <<>>]
       /\ tray_vars' = tray_vars \cup call.newvars
    /\ mem_idx' = 1
    /\ local_name' = Unbound
    /\ pc' = "ports_loop"
    /\ UNCHANGED <<cfg, err, blocks, cons, inlet_ports, exprs, member_list,
                   call_idx, ivars>>

\* one pass of the loop of the running _make_phase_split call
PhaseSplitMember ==
    /\ pc = "ports_loop"
    /\ mem_idx <= Len(member_list)
    /\ LET call == PortCalls(cfg)[call_idx]
           m == member_list[mem_idx]
           r == Resolve(m, call.port, call.phase, call.mult, local_name, exprs)
       IN  IF r.status \in {"ref", "expr", "skip"}
           THEN /\ ports' = IF r.status = "skip" THEN ports
                            ELSE [ports EXCEPT ![call.port] =
                                     Append(@, r.entry)]
                /\ exprs' = IF r.status = "expr"
                            THEN exprs \cup {r.entry.ename} ELSE exprs
                /\ local_name' = r.ln
                /\ mem_idx' = mem_idx + 1
                /\ UNCHANGED <<pc, err>>
           ELSE /\ pc' = "build_error"
                /\ err' = r.status
                /\ UNCHANGED <<ports, exprs, local_name, mem_idx>>
    /\ UNCHANGED <<cfg, blocks, tray_vars, cons, inlet_ports, member_list,
                   call_idx, ivars>>

\* the running call returns to _add_ports
LeavePhaseSplit ==
    /\ pc = "ports_loop"
    /\ mem_idx > Len(member_list)
    /\ call_idx' = call_idx + 1
    /\ pc' = "ports_call"
    /\ UNCHANGED <<cfg, err, blocks, tray_vars, cons, inlet_ports, ports,
                   exprs, member_list, mem_idx, local_name, ivars>>

\* _add_ports, and with it build, returns
FinishBuild ==
    /\ pc = "ports_call"
    /\ call_idx > Len(PortCalls(cfg))
    /\ pc' = "built"
    /\ UNCHANGED <<cfg, err, bvars, ivars>>

\* the tray before build() runs (pc "build"), and the tray as the first
\* part of build() is written to leave it, holding its state blocks, before
\* _add_material_balance (pc "material")
Init ==
    /\ cfg \in Flags
    /\ pc \in {"build", "material"}
    /\ err = "none"
    /\ blocks = IF pc = "build" THEN {} ELSE AllBlocks(cfg)
    /\ tray_vars = {}
    /\ cons = NoCons
    /\ inlet_ports = <<>>
    /\ ports = <<>>
    /\ exprs = {}
    /\ member_list = <<>>
    /\ call_idx = 0
    /\ mem_idx = 0
    /\ local_name = Unbound
    /\ active = [material |-> TRUE, enthalpy |-> TRUE, pressure |-> TRUE]
    /\ T_fixed = AllT(FALSE)
    /\ P_fixed = AllT(FALSE)
    /\ sf_fixed = [liq |-> FALSE, vap |-> FALSE]
    /\ solver = "None"
    /\ outlvl = 0
    /\ tee = "unbound"
    /\ props_init = {}
    /\ solves = <<>>
    /\ tcs = <<>>
    /\ msgs = <<>>
    /\ oplog = <<>>
    /\ ncalls = 0
    /\ in_T = <<>>
    /\ in_P = <<>>
    /\ out_T2 = <<>>
    /\ out_P = <<>>

Next ==
    \/ Build
    \/ AddMaterialBalance
    \/ AddEnergyBalance
    \/ AddPressureBalance
    \/ pc = "ports" /\ \E ml \in MemberLists : AddPorts(ml)
    \/ EnterPhaseSplit
    \/ PhaseSplitMember
    \/ LeavePhaseSplit
    \/ FinishBuild

Spec == Init /\ [][Next]_vars

\* ------------------------------------------------------------ initialize

\* the two precondition tests at the head of initialize
SplitFractionError_NoVaporCheck(c, sf) ==
    IF c.has_liquid_side_draw /\ ~sf.liq
    THEN "Liquid side draw split fraction not fixed."
    ELSE "none"

SplitFractionError(c, sf) ==
    IF c.has_liquid_side_draw /\ ~sf.liq
    THEN "Liquid side draw split fraction not fixed."
    ELSE IF c.has_vapor_side_draw /\ ~sf.vap
         THEN "Vapor side draw split fraction not fixed."
         ELSE "none"

SfErrors == {"Liquid side draw split fraction not fixed.",
             "Vapor side draw split fraction not fixed."}

\* <constraint>.deactivate() / .activate()
Deactivate_Forgotten(a, name) == a

Deactivate(a, name) == [a EXCEPT ![name] = FALSE]

Activate(a, name) == [a EXCEPT ![name] = TRUE]

\* properties_out[:].temperature.unfix() after the mass-only solve
UnfixTemperature_Forgotten(f) == f

UnfixTemperature(f) == AllT(FALSE)

\* what solver.solve(self, tee=tee) is handed: the model as it then stands
Snapshot(a, tf, pf) == [active |-> a, T_fixed |-> tf, P_fixed |-> pf]

\* the if/else on termination_condition after each solve only logs
MassMsg(tc) ==
    IF tc = "optimal" THEN "Mass balance solve successful."
    ELSE "Mass balance solve failed."

MassEnergyMsg(tc) ==
    IF tc = "optimal" THEN "Mass/Energy balance solve successful."
    ELSE "Mass/Energy balance solve failed."

FinalMsg(tc) ==
    IF tc = "optimal" THEN "Tray initialisation complete."
    ELSE "Mass/Energy/Pressure balance solve failed."

\* where initialize goes once the first solve's status has been inspected
AfterMassSolve_Abort(tc) == IF tc = "optimal" THEN "solve2" ELSE "init_error"

AfterMassSolve(tc) == "solve2"

\* a value a Var holds, with the statement that put it there: the property
\* package's default, Var.fix(v), or the solver loading its result
DefaultValue == [by |-> "default", v |-> 0]

FixedValue(x) == [by |-> "fix", v |-> x]

SolverValue == [by |-> "solve", v |-> 0]

\* the values an inlet quantity holds over the time set when initialize is
\* called: base at time 0, rising by d per time point; an inlet is either
\* steady (d = 0) or changes over time (d = 1)
Drifts == {0, 1}

Profile(base, d) == [t \in TimeSet |-> base + d * t]

\* average_temperature, doubled to stay in the integers:
\*   0.5 * (properties_in_liq[0].T + properties_in_vap[0].T)  if not feed
\*   properties_in_feed[0].T                                   if feed tray
average_temperature(c, tin) ==
    IF ~c.is_feed_tray
    THEN tin["liq"][0] + tin["vap"][0]
    ELSE 2 * tin["feed"][0]

\* properties_out[:].temperature.fix(average_temperature)
FixOutletTemperature(c, tin) ==
    [t \in TimeSet |-> FixedValue(average_temperature(c, tin))]

\* properties_out[:].pressure.fix(properties_in_vap[0].pressure.value)
FixOutletPressure(pin) == [t \in TimeSet |-> FixedValue(pin[0])]

\* initialize, from its call to its first solver.solve (or its exception)
Initialize(s, o) ==
    /\ pc \in {"ready", "done", "init_error"}
    /\ ncalls < MaxCalls
    /\ ncalls' = ncalls + 1
    /\ solver' = s
    /\ outlvl' = o
    /\ tcs' = <<>>
    /\ msgs' = <<>>
    /\ UNCHANGED <<cfg, sf_fixed, in_T, in_P, bvars>>
    /\ LET e == SplitFractionError(cfg, sf_fixed) IN
       IF e # "none"
       THEN /\ pc' = "init_error"
            /\ err' = e
            /\ props_init' = {}
            /\ solves' = <<>>
            /\ oplog' = <<>>
            /\ tee' = "unbound"
            /\ UNCHANGED <<active, T_fixed, P_fixed, out_T2, out_P>>
       ELSE /\ props_init' = InletBlocks(cfg) \cup {"out"}
            /\ active' = Deactivate(Deactivate(active, "enthalpy"), "pressure")
            /\ T_fixed' = AllT(TRUE)
            /\ out_T2' = FixOutletTemperature(cfg, in_T)
            /\ P_fixed' = AllT(TRUE)
            /\ out_P' = FixOutletPressure(in_P)
            /\ tee' = IF s # "None" THEN (IF o > 2 THEN "True" ELSE "False")
                      ELSE "unbound"
            /\ IF s = "None"
               THEN /\ pc' = "init_error"
                    /\ err' = "AttributeError"
                    /\ solves' = <<>>
                    /\ oplog' = <<"deactivate_enthalpy", "fix_T",
                                  "deactivate_pressure", "fix_P">>
               ELSE /\ pc' = "solve1"
                    /\ err' = "none"
                    /\ solves' = <<Snapshot(active', T_fixed', P_fixed')>>
                    /\ oplog' = <<"deactivate_enthalpy", "fix_T",
                                  "deactivate_pressure", "fix_P", "solve">>

\* the first solve returns tc; initialize runs on to its second solver.solve
Stage2(tc) ==
    /\ pc = "solve1"
    /\ tcs' = Append(tcs, tc)
    /\ msgs' = Append(msgs, MassMsg(tc))
    /\ pc' = AfterMassSolve(tc)
    /\ err' = IF pc' = "init_error" THEN "InitializationError" ELSE "none"
    /\ IF pc' = "solve2"
       THEN /\ active' = Activate(active, "enthalpy")
            /\ T_fixed' = UnfixTemperature(T_fixed)
            /\ solves' = Append(solves, Snapshot(active', T_fixed', P_fixed))
            /\ oplog' = oplog \o <<"activate_enthalpy", "unfix_T", "solve">>
       ELSE UNCHANGED <<active, T_fixed, solves, oplog>>
    /\ UNCHANGED <<cfg, P_fixed, sf_fixed, solver, outlvl, tee, props_init,
                   ncalls, vvars, bvars>>

\* the second solve returns tc; initialize runs on to its end
Stage3(tc) ==
    /\ pc = "solve2"
    /\ tcs' = Append(tcs, tc)
    /\ msgs' = msgs \o <<MassEnergyMsg(tc), FinalMsg(tc)>>
    /\ active' = Activate(active, "pressure")
    /\ P_fixed' = AllT(FALSE)
    /\ oplog' = oplog \o <<"activate_pressure", "unfix_P">>
    /\ out_T2' = [t \in TimeSet |-> SolverValue]
    /\ pc' = "done"
    /\ err' = "none"
    /\ UNCHANGED <<cfg, T_fixed, sf_fixed, solver, outlvl, tee, props_init,
                   solves, ncalls, in_T, in_P, out_P, bvars>>

\* the caller fixes or unfixes a side-draw split fraction between calls
\* (pc "ready": the tray is built and no initialize call is in progress)
CallerSetsSplitFraction(side, b) ==
    /\ pc \in {"ready", "done", "init_error"}
    /\ ncalls < MaxCalls
    /\ \/ side = "liq" /\ cfg.has_liquid_side_draw
       \/ side = "vap" /\ cfg.has_vapor_side_draw
    /\ sf_fixed[side] # b
    /\ sf_fixed' = [sf_fixed EXCEPT ![side] = b]
    /\ pc' = "ready"
    /\ err' = "none"
    /\ UNCHANGED <<cfg, active, T_fixed, P_fixed, solver, outlvl, tee,
                   props_init, solves, tcs, msgs, oplog, ncalls, vvars,
                   bvars>>

\* a tray as build() is written to leave it: every constraint active, the
\* outlet state free, the split fractions (Var(initialize=0.01)) not fixed;
\* the inlet states hold the values the flowsheet gave them, steady or
\* changing over the time set
InitInitialize ==
    /\ cfg \in Flags
    /\ pc = "ready"
    /\ err = "none"
    /\ blocks = AllBlocks(cfg)
    /\ tray_vars = EnergyVars(cfg) \cup PressureVars(cfg)
                   \cup UNION {PortCalls(cfg)[n].newvars :
                                 n \in 1 .. Len(PortCalls(cfg))}
    /\ cons = [material |-> MaterialBalance(cfg),
               enthalpy |-> EnergyBalance(cfg),
               pressure |-> PressureBalance(cfg)]
    /\ inlet_ports = InletPorts(cfg)
    /\ member_list = <<>>
    /\ ports = [n \in {PortCalls(cfg)[i].port :
                           i \in 1 .. Len(PortCalls(cfg))} |-> <<>>]
    /\ exprs = {}
    /\ call_idx = Len(PortCalls(cfg)) + 1
    /\ mem_idx = 1
    /\ local_name = Unbound
    /\ active = [material |-> TRUE, enthalpy |-> TRUE, pressure |-> TRUE]
    /\ T_fixed = AllT(FALSE)
    /\ P_fixed = AllT(FALSE)
    /\ sf_fixed = [liq |-> FALSE, vap |-> FALSE]
    /\ solver = "None"
    /\ outlvl = 0
    /\ tee = "unbound"
    /\ props_init = {}
    /\ solves = <<>>
    /\ tcs = <<>>
    /\ msgs = <<>>
    /\ oplog = <<>>
    /\ ncalls = 0
    /\ \E base \in [InletBlocks(cfg) -> 1 .. MaxValue], d \in Drifts :
          /\ in_T = [b \in InletBlocks(cfg) |-> Profile(base[b], d)]
          /\ in_P = Profile(MaxValue, d)
    /\ out_T2 = [t \in TimeSet |-> DefaultValue]
    /\ out_P = [t \in TimeSet |-> DefaultValue]

NextInitialize ==
    \/ \E s \in Solvers, o \in OutLevels : Initialize(s, o)
    \/ \E tc \in TermConds : Stage2(tc)
    \/ \E tc \in TermConds : Stage3(tc)
    \/ \E side \in {"liq", "vap"}, b \in BOOLEAN :
          CallerSetsSplitFraction(side, b)

SpecInitialize == InitInitialize /\ [][NextInitialize]_vars

\* ------------------------------------------------- claims on initialize

AllActive == [material |-> TRUE, enthalpy |-> TRUE, pressure |-> TRUE]

MassOnly == [material |-> TRUE, enthalpy |-> FALSE, pressure |-> FALSE]

MassEnergy == [material |-> TRUE, enthalpy |-> TRUE, pressure |-> FALSE]

\* C1: every initialize call that passes the split-fraction precondition and
\* runs to its end has invoked the solver three times, the third time on the
\* complete system (all three balances active, outlet T and P unfixed).
C1_ThreeSolves ==
    pc = "done" =>
        /\ Len(solves) = 3
        /\ solves[3] = Snapshot(AllActive, AllT(FALSE), AllT(FALSE))

\* C2: at the first solver invocation only the material balance is active
\* and outlet T and P are fixed; at the second the material and energy
\* balances are active, the pressure balance is not, T is unfixed and P is
\* fixed; at the end all three are active, T and P are unfixed and the
\* configured side-draw split fractions are still fixed.
C2_StageBoundaries ==
    /\ pc = "solve1" =>
          /\ Len(solves) = 1
          /\ solves[1] = Snapshot(MassOnly, AllT(TRUE), AllT(TRUE))
          /\ active = MassOnly
          /\ \A t \in TimeSet : T_fixed[t] /\ P_fixed[t]
    /\ pc = "solve2" =>
          /\ Len(solves) = 2
          /\ solves[2] = Snapshot(MassEnergy, AllT(FALSE), AllT(TRUE))
          /\ active = MassEnergy
          /\ \A t \in TimeSet : ~T_fixed[t] /\ P_fixed[t]
    /\ pc = "done" =>
          /\ active = AllActive
          /\ \A t \in TimeSet : ~T_fixed[t] /\ ~P_fixed[t]
          /\ cfg.has_liquid_side_draw => sf_fixed.liq
          /\ cfg.has_vapor_side_draw => sf_fixed.vap

C2_Witness ==
    /\ pc = "done"
    /\ Len(solves) = 2
    /\ cfg.has_liquid_side_draw
    /\ cfg.has_vapor_side_draw

\* C3: an initialize call made while a configured side draw's split fraction
\* is not fixed ends in that error at once: no state block is initialized, no
\* constraint is deactivated, no variable is fixed or unfixed and the solver
\* is not invoked, so the model is as it was before the call.
C3_FailFast ==
    [][(/\ ncalls' = ncalls + 1
        /\ \/ cfg.has_liquid_side_draw /\ ~sf_fixed.liq
           \/ cfg.has_vapor_side_draw /\ ~sf_fixed.vap)
       => (/\ pc' = "init_error"
           /\ err' \in SfErrors
           /\ props_init' = {}
           /\ solves' = <<>>
           /\ oplog' = <<>>
           /\ UNCHANGED <<active, T_fixed, P_fixed, sf_fixed>>)]_vars

\* the precondition fails on a model an earlier call had left mutated
C3_Witness ==
    /\ pc = "init_error"
    /\ err \in SfErrors
    /\ ncalls = 2
    /\ active = MassOnly
    /\ props_init = {}

\* the model-mutating statements of a call in which every solve is optimal
OptimalRunOps ==
    <<"deactivate_enthalpy", "fix_T", "deactivate_pressure", "fix_P", "solve",
      "activate_enthalpy", "unfix_T", "solve",
      "activate_pressure", "unfix_P">>

\* C4: whatever termination conditions the solver returns, initialize raises
\* nothing, goes on to every later step and solve, solves each stage once,
\* and ends with the flags of the run in which every solve is optimal.
C4_StatusIgnored ==
    /\ (pc # "ready" /\ Len(tcs) = 1) =>
          /\ pc = "solve2"
          /\ err = "none"
          /\ Len(solves) = 2
    /\ (pc # "ready" /\ Len(tcs) = 2) =>
          /\ pc = "done"
          /\ err = "none"
          /\ Len(solves) = 2
          /\ oplog = OptimalRunOps
          /\ active = AllActive
          /\ T_fixed = AllT(FALSE)
          /\ P_fixed = AllT(FALSE)

C4_Witness ==
    /\ pc = "done"
    /\ tcs = <<"infeasible", "infeasible">>

\* ------------------------------------------------------ claims on build

EntriesOf(port) == {ports[port][n] : n \in 1 .. Len(ports[port])}

MembersOf(ml) == {ml[n] : n \in 1 .. Len(ml)}

\* the value an entry takes, in units of 1/SfDenom, when the state-block
\* variable it reads is x and its split fraction is n/SfDenom
EntryValue(e, x, n) == x * (e.mult.c * SfDenom + e.mult.v * n)

\* C5: for every configuration build completes, and the tray then has the
\* inlet ports feed, liq_in and vap_in on a feed tray and liq_in and vap_in
\* otherwise, each passing its own inlet state block through.
C5_BuildCompletes ==
    /\ err # "TypeError"
    /\ pc = "built" =>
          /\ DOMAIN inlet_ports =
                (IF cfg.is_feed_tray THEN {"feed"} ELSE {})
                \cup {"liq_in", "vap_in"}
          /\ \A a, b \in DOMAIN inlet_ports :
                /\ inlet_ports[a] \in InletBlocks(cfg)
                /\ inlet_ports[a] \in blocks
                /\ a # b => inlet_ports[a] # inlet_ports[b]

\* a flow member as the naming convention has it: a scalar total flow, or a
\* component-indexed flow named X_Y_comp
ConventionFlow(m) ==
    /\ Branch(m.k) = "flow"
    /\ ~Has(m.k, "phase")
    /\ m.indexed => (Len(m.k) = 3 /\ m.k[3] = "comp")

\* the phase-indexed sibling of a flow member
FlowSibling(m) ==
    IF m.indexed THEN <<m.k[1], m.k[2], "phase", "comp">>
    ELSE m.k \o <<"phase">>

\* the entry of member m in a port, once the port holds one
EntryFor(port, m) == CHOOSE e \in EntriesOf(port) : e.k = m.k

HasOneEntry(port, m) ==
    /\ port \in DOMAIN ports
    /\ Cardinality({n \in 1 .. Len(ports[port]) : ports[port][n].k = m.k}) = 1

\* C6 for one phase of a built tray
PhaseSplitIsComplementary(side, main, draw, tag) ==
    \A m \in MembersOf(member_list) :
        ConventionFlow(m) =>
            /\ HasOneEntry(main, m)
            /\ EntryFor(main, m).type = "expr"
            /\ EntryFor(main, m).var = FlowSibling(m)
            /\ EntryFor(main, m).phase = tag
            /\ IF ~side
               THEN /\ draw \notin DOMAIN ports
                    /\ \A x \in 0 .. MaxFlow, n \in 0 .. SfDenom :
                          EntryValue(EntryFor(main, m), x, n) = x * SfDenom
               ELSE /\ HasOneEntry(draw, m)
                    /\ EntryFor(draw, m).type = "expr"
                    /\ EntryFor(draw, m).var = FlowSibling(m)
                    /\ EntryFor(draw, m).phase = tag
                    /\ \A x \in 0 .. MaxFlow, n \in 0 .. SfDenom :
                          /\ EntryValue(EntryFor(draw, m), x, n) = x * n
                          /\ EntryValue(EntryFor(main, m), x, n)
                                = x * (SfDenom - n)
                          /\ EntryValue(EntryFor(draw, m), x, n)
                                + EntryValue(EntryFor(main, m), x, n)
                                = x * SfDenom

NonSplit(m) ==
    \/ Branch(m.k) = "intensive"
    \/ Branch(m.k) = "fraction" /\ Has(m.k, "phase")
    \/ Branch(m.k) = "enthalpy" /\ Has(m.k, "phase")

\* C7: a non-split member (no "flow", "frac" or "enth" in its name, or a
\* phase-indexed fraction or enthalpy) is in every outgoing port a direct
\* reference to the same outlet-state variable, with no phase selection and
\* no scaling, whatever the split fractions are.
C7_NonSplitShared ==
    /\ \A port \in DOMAIN ports : \A e \in EntriesOf(port) :
          \A m \in MembersOf(member_list) :
             (m.k = e.k /\ NonSplit(m)) =>
                /\ e.type = "ref"
                /\ e.var = LocalName(m)
                /\ e.phase = "all"
                /\ ~e.scaled
                /\ \A x \in 0 .. MaxFlow, n \in 0 .. SfDenom :
                      EntryValue(e, x, n) = x * SfDenom
    /\ pc = "built" =>
          \A m \in MembersOf(member_list) : NonSplit(m) =>
             \A p1, p2 \in DOMAIN ports :
                /\ HasOneEntry(p1, m)
                /\ HasOneEntry(p2, m)
                /\ EntryFor(p1, m) = EntryFor(p2, m)

C7_Witness ==
    /\ pc = "built"
    /\ Cardinality(DOMAIN ports) = 4
    /\ \E m \in MembersOf(member_list) : Branch(m.k) = "intensive"
    /\ \E m \in MembersOf(member_list) :
          Branch(m.k) = "enthalpy" /\ Has(m.k, "phase")

\* C8: heat_duty exists iff has_heat_transfer and deltaP iff
\* has_pressure_change; with the flag off the term is absent from the energy
\* (pressure) balance, the outlet pressure then being set equal to the
\* vapor-inlet pressure; with it on, heat_duty is added in the energy balance
\* and deltaP subtracted from the vapor-inlet pressure.
C8_OptionalTerms ==
    /\ cons.enthalpy = <<>> => "heat_duty" \notin tray_vars
    /\ cons.pressure = <<>> => "deltaP" \notin tray_vars
    /\ cons.enthalpy # <<>> =>
          /\ "heat_duty" \in tray_vars <=> cfg.has_heat_transfer
          /\ \A t \in TimeSet :
                /\ Term(1, "tray", "heat_duty", "none", 0) \in cons.enthalpy[t]
                      <=> cfg.has_heat_transfer
                /\ \A x \in cons.enthalpy[t] :
                      x.blk = "tray" =>
                         x = Term(1, "tray", "heat_duty", "none", 0)
    /\ cons.pressure # <<>> =>
          /\ "deltaP" \in tray_vars <=> cfg.has_pressure_change
          /\ \A t \in TimeSet :
                /\ cons.pressure[t].lhs = {Term(1, "out", "pressure", "none", 0)}
                /\ cons.pressure[t].rhs =
                      {Term(1, "vap", "pressure", "none", 0)}
                      \cup (IF cfg.has_pressure_change
                            THEN {Term(-1, "tray", "deltaP", "none", 0)}
                            ELSE {})

C8_Witness ==
    /\ cons.pressure # <<>>
    /\ cfg.has_heat_transfer
    /\ ~cfg.has_pressure_change

\* C9: whatever members the outlet state declares and whatever ports are
\* built, every synthesized expression is registered under a name no other
\* synthesized expression has, so no registration collides with an earlier
\* one, across ports or within one port.
C9_NoNameCollision == err # "RuntimeError"

\* a member of the enthalpy branch that is neither total nor phase-indexed
EnthBad(m) ==
    /\ Branch(m.k) = "enthalpy"
    /\ ~Has(m.k, "phase")
    /\ m.indexed

\* C10: an enthalpy member that is not phase-indexed but is an indexed
\* variable ends port construction in a PropertyPackageError, with no port
\* entry and no expression made for it; no enthalpy member of a shape other
\* than total or phase-indexed gets past the loop.
C10_EnthalpyErrors ==
    /\ pc = "ports_loop" =>
          \A n \in 1 .. (mem_idx - 1) : ~EnthBad(member_list[n])
    /\ pc \in {"ports_call", "built"} /\ call_idx > 1 =>
          \A m \in MembersOf(member_list) : ~EnthBad(m)
    /\ \A port \in DOMAIN ports : \A e \in EntriesOf(port) :
          \A m \in MembersOf(member_list) : m.k = e.k => ~EnthBad(m)
    /\ err = "PropertyPackageError" =>
          /\ pc = "build_error"
          /\ EnthBad(member_list[mem_idx])
          /\ <<"e_enth", PortCalls(cfg)[call_idx].port>> \notin exprs
    /\ pc = "build_error" /\ err # "TypeError" /\ EnthBad(member_list[mem_idx])
          => err = "PropertyPackageError"

C10_Witness ==
    /\ err = "PropertyPackageError"
    /\ pc = "build_error"
    /\ mem_idx = 2
    /\ ports[PortCalls(cfg)[call_idx].port] # <<>>

\* the sum of f over the finite set S
RECURSIVE SumOver(_, _)
SumOver(S, f) ==
    IF S = {} THEN 0
    ELSE LET x == CHOOSE y \in S : TRUE IN f[x] + SumOver(S \ {x}, f)

\* the values get_material_flow_terms(p, j) may take, for one t and j, on
\* each state block of the tray: val[<<block, phase>>]
FlowValuations(c) == [AllBlocks(c) \X PhaseList -> 0 .. MaxTerm]

\* the right-hand side of a constraint body under a valuation
Residual(body, val) ==
    SumOver(body, [x \in body |-> x.sign * val[<<x.blk, x.p>>]])

\* C11: the material balance is one constraint per (time point, component);
\* the constraint of (t, j) sums, over all phases, the flow terms of j of
\* the inlets (feed, liquid and vapor on a feed tray, liquid and vapor
\* otherwise) minus that of the outlet, so its residual is zero exactly when
\* the phase-summed inlet flows of j equal the phase-summed outlet flow.
C11_MaterialBalance ==
    cons.material # <<>> =>
        /\ DOMAIN cons.material = TimeSet \X CompList
        /\ \A tj \in DOMAIN cons.material :
              /\ \A x \in cons.material[tj] :
                    x.q = "material_flow" /\ x.j = tj[2]
              /\ pc = "energy" =>
                    \A val \in FlowValuations(cfg) :
                       Residual(cons.material[tj], val) = 0
                       <=> SumOver(InletBlocks(cfg) \X PhaseList, val)
                              = SumOver({"out"} \X PhaseList, val)

C11_Witness ==
    /\ pc = "energy"
    /\ cfg.is_feed_tray
    /\ cons.material # <<>>

\* C12: at the first solver invocation, for every time point t, the outlet
\* temperature at t is fixed to the average of the liquid-inlet and
\* vapor-inlet temperatures at t (to the feed temperature at t on a feed
\* tray), and the outlet pressure at t is fixed to the vapor inlet's pressure
\* at t.
C12_GuessPerTimePoint ==
    pc = "solve1" =>
        \A t \in TimeSet :
           /\ T_fixed[t]
           /\ out_T2[t] = FixedValue(IF cfg.is_feed_tray
                                     THEN 2 * in_T["feed"][t]
                                     ELSE in_T["liq"][t] + in_T["vap"][t])
           /\ P_fixed[t]
           /\ out_P[t] = FixedValue(in_P[t])

\* the member names a port holds
NamesOf(port) == {e.k : e \in EntriesOf(port)}

\* C13: every member of define_port_members that a _make_phase_split call has
\* gone past without raising has exactly one entry under its name in the
\* call's port, so that on a built tray no declared member is missing from a
\* port and every outgoing port holds the same set of member names.
C13_PortsExhaustive ==
    /\ pc = "ports_loop" =>
          \A n \in 1 .. (mem_idx - 1) :
             HasOneEntry(PortCalls(cfg)[call_idx].port, member_list[n])
    /\ pc = "built" =>
          \A p1, p2 \in DOMAIN ports :
             /\ \A m \in MembersOf(member_list) : HasOneEntry(p1, m)
             /\ NamesOf(p1) = NamesOf(p2)

\* C14: an initialize call without a solver (solver = None) that passes the
\* split-fraction precondition ends in an error with no solver invocation,
\* and by then the energy and pressure balances are deactivated and the
\* outlet temperature and pressure fixed at every time point; as long as no
\* new initialize call is made, nothing activates or unfixes them again.
C14_NoSolverNoRollback ==
    [][ /\ ( /\ ncalls' = ncalls + 1
             /\ solver' = "None"
             /\ SplitFractionError(cfg, sf_fixed) = "none" )
           => /\ pc' = "init_error"
              /\ err' = "AttributeError"
              /\ solves' = <<>>
              /\ tcs' = <<>>
              /\ active' = MassOnly
              /\ \A t \in TimeSet :
                    /\ T_fixed'[t] /\ out_T2'[t].by = "fix"
                    /\ P_fixed'[t] /\ out_P'[t].by = "fix"
        /\ ( /\ pc = "init_error"
             /\ err = "AttributeError"
             /\ ncalls' = ncalls )
           => /\ active = MassOnly
              /\ \A t \in TimeSet : T_fixed[t] /\ P_fixed[t]
              /\ UNCHANGED <<active, T_fixed, P_fixed, out_T2, out_P>>
      ]_vars

C14_Witness ==
    /\ pc = "init_error"
    /\ err = "AttributeError"
    /\ solver = "None"
    /\ solves = <<>>
    /\ active = MassOnly
    /\ \A t \in TimeSet : T_fixed[t] /\ P_fixed[t]

====
